---- MODULE Spec2Model ----
(***************************************************************************)
(* Project Symphony: the orchestrator's phase / refinement state machine   *)
(* (core/orchestrator.py), the phase-1 agent (agents/project_manager.py)   *)
(* and the coder agent (agents/coder_agent.py).                            *)
(*                                                                         *)
(* A response body of the generation capability is a sequence of tokens:   *)
(*   "{" "}"  the braces of a JSON object                                  *)
(*   "T"      a member  "tasks": <list of tasks>  (the list is the body's  *)
(*            payload, kept beside the text)                               *)
(*   "N"      a member other than "tasks"                                  *)
(*   "1"      a JSON value that is not an object (a number)                *)
(*   "x"      prose, which is not JSON                                     *)
(***************************************************************************)
EXTENDS Integers, Sequences, FiniteSets, TLC

\* ------------------------------------------------------------- bounds
MaxBodyLen == 4
MaxTasks == 2
MaxFix == 1
MaxRestarts == 1
MaxEntries == 2
MaxContentLen == 11
MaxClock == 1
MaxDepth == 4

\* ------------------------------------------------------------- values
max_iterations == 3

AgentTypes == {"coder", "designer"}
TaskIds == {1, 2}

\* A task of a project spec written by the model: its id and agent_type.
LLMTasks == [id : TaskIds, agent_type : AgentTypes, dependencies : {<<>>}]

SeqsUpTo(S, n) == UNION {[1 .. k -> S] : k \in 0 .. n}

TaskLists == SeqsUpTo(LLMTasks, MaxTasks)

BodyChars == {"{", "}", "T", "N", "1", "x"}
BodyTexts == SeqsUpTo(BodyChars, MaxBodyLen)

HasChar(text, c) == \E i \in 1 .. Len(text) : text[i] = c

\* The response bodies: the payload only matters when the text has a tasks member.
BodiesOf(texts, lists) ==
  {[text |-> t, tasks |-> ts] :
     t \in {u \in texts : HasChar(u, "T")}, ts \in lists}
  \cup {[text |-> t, tasks |-> <<>>] : t \in {u \in texts : ~HasChar(u, "T")}}

\* Every body of at most MaxBodyLen tokens, its tasks list empty or of one task.
Bodies == BodiesOf(BodyTexts, SeqsUpTo(LLMTasks, 1))

\* The phase-1 bodies of a whole run: a valid object with every tasks list, and
\* one text per other path of analyze_project (repaired with and without tasks,
\* fallback, not an object, no tasks) with the short tasks lists.
PipelineTexts ==
  { <<"x", "{", "T", "}", "x">>, <<"x", "{", "N", "}">>, <<"x">>, <<"1">>,
    <<"{", "N", "}">> }
PipelineBodies ==
  BodiesOf({ <<"{", "T", "}">> }, TaskLists)
  \cup BodiesOf(PipelineTexts, SeqsUpTo(LLMTasks, 1))

\* The body a task agent receives: prose, which execute_task wraps.
TaskBodies == BodiesOf({ <<"x">> }, {<<>>})

UserPrompts == {<<"p">>}

\* ------------------------------------------------------------- json
\* json.loads accepts an object "{" member* "}" or a scalar; anything else
\* raises JSONDecodeError.
IsJsonObject(text) ==
  /\ Len(text) >= 2
  /\ text[1] = "{"
  /\ text[Len(text)] = "}"
  /\ \A i \in 2 .. Len(text) - 1 : text[i] \in {"T", "N"}

IsJsonScalar(text) == text = <<"1">>

JsonDecodes(text) == IsJsonObject(text) \/ IsJsonScalar(text)

\* The value json.loads returns for a text that decodes.
JsonLoads(text, payload) ==
  IF IsJsonObject(text)
    THEN [kind |-> "object", has_tasks |-> HasChar(text, "T"),
          tasks |-> IF HasChar(text, "T") THEN payload ELSE <<>>]
    ELSE [kind |-> "scalar", has_tasks |-> FALSE, tasks |-> <<>>]

\* str.find / str.rfind: the 0-based index of the first / last occurrence, or -1.
Find(text, c) ==
  IF HasChar(text, c)
    THEN (CHOOSE i \in 1 .. Len(text) :
            text[i] = c /\ \A j \in 1 .. i - 1 : text[j] # c) - 1
    ELSE -1

RFind(text, c) ==
  IF HasChar(text, c)
    THEN (CHOOSE i \in 1 .. Len(text) :
            text[i] = c /\ \A j \in i + 1 .. Len(text) : text[j] # c) - 1
    ELSE -1

\* raw[start:end] with 0 <= start, end <= len(raw)
Slice(text, start, end) == SubSeq(text, start + 1, end)

\* ------------------------------------------------------------- generation
\* An exception is its type and its message; str(e) is the message.
GenErrors == {[type |-> "Exception", msg |-> "No Hugging Face models available"]}
NoExc == [type |-> "none", msg |-> ""]
Str(e) == e.msg

EmptyBody == [text |-> <<>>, tasks |-> <<>>]

\* llm_service.generate(prompt): a response {content, model}, or an exception.
GenOutcomes(B) ==
  {[ok |-> TRUE, content |-> b, model |-> "gemini-pro", exc |-> NoExc] : b \in B}
  \cup {[ok |-> FALSE, content |-> EmptyBody, model |-> "none", exc |-> e] :
          e \in GenErrors}

NoGen == [ok |-> FALSE, content |-> EmptyBody, model |-> "none", exc |-> NoExc]

\* ------------------------------------------------------------- phase 1 agent
NoSpec == [kind |-> "none", has_tasks |-> FALSE, tasks |-> <<>>,
           description |-> <<>>]
NoPhase1 == [status |-> "none", result |-> NoSpec, model_used |-> "none",
             note |-> "none"]

Returned(v) == [raised |-> FALSE, exc |-> NoExc, value |-> v]
Raised(e) == [raised |-> TRUE, exc |-> e, value |-> NoPhase1]

\* The project spec a decoded body stands for.
SpecOf(json) ==
  [kind |-> json.kind, has_tasks |-> json.has_tasks, tasks |-> json.tasks,
   description |-> <<"llm">>]

\* FallbackTasks with the dependency of the writer task left out.
FallbackTasksNoDependency ==
  << [id |-> 1, agent_type |-> "coder", dependencies |-> <<>>],
     [id |-> 2, agent_type |-> "writer", dependencies |-> <<>>] >>

FallbackTasks ==
  << [id |-> 1, agent_type |-> "coder", dependencies |-> <<>>],
     [id |-> 2, agent_type |-> "writer", dependencies |-> <<1>>] >>

CreateFallbackTasks(user_prompt) ==
  Returned([status |-> "completed",
            result |-> [kind |-> "object", has_tasks |-> TRUE,
                        tasks |-> FallbackTasks, description |-> user_prompt],
            model_used |-> "fallback",
            note |-> "Used fallback task structure"])

\* FixJsonResponse with the failed repair raised instead of falling back.
JsonDecodeError == [type |-> "JSONDecodeError", msg |-> "Expecting value"]
FixJsonResponseRaises(raw, user_prompt) ==
  LET start_idx == Find(raw.text, "{")
      end_idx == RFind(raw.text, "}") + 1
      json_str == IF start_idx < end_idx
                    THEN Slice(raw.text, start_idx, end_idx) ELSE <<>>
  IN IF start_idx # -1 /\ end_idx # 0
       THEN IF JsonDecodes(json_str)
              THEN Returned([status |-> "completed",
                             result |-> SpecOf(JsonLoads(json_str, raw.tasks)),
                             model_used |-> "gemini-pro",
                             note |-> "JSON was fixed"])
              ELSE Raised(JsonDecodeError)
       ELSE CreateFallbackTasks(user_prompt)

FixJsonResponse(raw, user_prompt) ==
  LET start_idx == Find(raw.text, "{")
      end_idx == RFind(raw.text, "}") + 1
      json_str == IF start_idx < end_idx
                    THEN Slice(raw.text, start_idx, end_idx) ELSE <<>>
  IN IF start_idx # -1 /\ end_idx # 0
       THEN IF JsonDecodes(json_str)
              THEN Returned([status |-> "completed",
                             result |-> SpecOf(JsonLoads(json_str, raw.tasks)),
                             model_used |-> "gemini-pro",
                             note |-> "JSON was fixed"])
              ELSE CreateFallbackTasks(user_prompt)
       ELSE CreateFallbackTasks(user_prompt)

TypeErrorNotIterable ==
  [type |-> "TypeError", msg |-> "argument of type 'int' is not iterable"]
InvalidResponse ==
  [type |-> "ValueError", msg |-> "Invalid response from project manager"]

\* The validation of the decoded value: "tasks" must be in it.
ValidateStructure(result) ==
  IF result.kind = "scalar" THEN TypeErrorNotIterable
  ELSE IF ~result.has_tasks THEN InvalidResponse
  ELSE NoExc

AnalyzeProject(user_prompt, response) ==
  IF ~response.ok THEN Raised(response.exc)
  ELSE IF JsonDecodes(response.content.text)
    THEN LET result == JsonLoads(response.content.text, response.content.tasks)
         IN IF ValidateStructure(result) # NoExc
              THEN Raised(ValidateStructure(result))
              ELSE Returned([status |-> "completed", result |-> SpecOf(result),
                             model_used |-> response.model, note |-> "none"])
    ELSE FixJsonResponse(response.content, user_prompt)

\* ------------------------------------------------------------- task agents
NoOutput == [kind |-> "none", code |-> <<>>, error |-> ""]
NoResult == [task_id |-> 0, agent |-> "none", status |-> "none",
             output |-> NoOutput, model_used |-> "none"]

\* The inner try of execute_task: the decoded JSON, else the raw text wrapped.
ParseOrWrap(content) ==
  IF JsonDecodes(content.text)
    THEN [kind |-> "json", code |-> <<>>, error |-> ""]
    ELSE [kind |-> "raw", code |-> content.text, error |-> ""]

FailedResult(agent, task, e) ==
  [task_id |-> task.id, agent |-> agent, status |-> "failed",
   output |-> [kind |-> "error", code |-> <<>>, error |-> Str(e)],
   model_used |-> "error"]

CompletedResult(agent, task, response) ==
  [task_id |-> task.id, agent |-> agent, status |-> "completed",
   output |-> ParseOrWrap(response.content), model_used |-> response.model]

\* What a call of execute_task does: it returns a result, or an exception
\* leaves it.
ReturnedResult(r) == [raised |-> FALSE, exc |-> NoExc, value |-> r]
RaisedInTask(e) == [raised |-> TRUE, exc |-> e, value |-> NoResult]

\* CoderAgent.execute_task without its outer try: the exception leaves it.
CoderExecuteTaskPropagates(task, response) ==
  IF response.ok THEN ReturnedResult(CompletedResult("coder", task, response))
  ELSE RaisedInTask(response.exc)

\* CoderAgent.execute_task: the outer try turns every exception of the
\* generation call into a failed result.
CoderExecuteTask(task, response) ==
  IF response.ok THEN ReturnedResult(CompletedResult("coder", task, response))
  ELSE ReturnedResult(FailedResult("coder", task, response.exc))

\* DesignerAgent / ResearcherAgent .execute_task: the common contract of the
\* task agents.
OtherExecuteTask(agent, task, response) ==
  IF response.ok THEN ReturnedResult(CompletedResult(agent, task, response))
  ELSE ReturnedResult(FailedResult(agent, task, response.exc))

\* Dispatch without its default branch: an agent_type that no branch names
\* gets no agent.
UnknownAgentType == [type |-> "ValueError", msg |-> "unknown agent type"]
DispatchNoDefault(task, response) ==
  IF task.agent_type = "coder" THEN CoderExecuteTask(task, response)
  ELSE IF task.agent_type = "designer"
    THEN OtherExecuteTask("designer", task, response)
  ELSE IF task.agent_type = "researcher"
    THEN OtherExecuteTask("researcher", task, response)
  ELSE RaisedInTask(UnknownAgentType)

\* The dispatch of phase 2 on agent_type.
Dispatch(task, response) ==
  IF task.agent_type = "coder" THEN CoderExecuteTask(task, response)
  ELSE IF task.agent_type = "designer"
    THEN OtherExecuteTask("designer", task, response)
  ELSE IF task.agent_type = "researcher"
    THEN OtherExecuteTask("researcher", task, response)
  ELSE CoderExecuteTask(task, response)

\* ------------------------------------------------------------- collaborators
\* IntegratorAgent.integrate: an IntegrationOutput, here the fields it holds.
\* Which call returned an output is kept beside it (call, below), so one
\* content is enough to tell the outputs apart.
IntegrationOutputs ==
  {[fields |-> {"main_file", "documentation"}, project_structure |-> <<>>]}

\* Every shape of an integration output that final assembly tells apart: the
\* fields present, and the entries of project_structure in the order of the
\* mapping, each a file name and a content. A content is a text of len
\* characters, or a value that is no text.
OutputFields == {"main_file", "documentation", "dependencies",
                 "project_structure"}
StructureNames == {"app.py", "util.py", "main.py"}
Contents ==
  [textual : {TRUE}, len : 0 .. MaxContentLen]
  \cup {[textual |-> FALSE, len |-> 0]}
Structures ==
  {st \in SeqsUpTo([file_name : StructureNames, content : Contents],
                   MaxEntries) :
     \A i, j \in 1 .. Len(st) : st[i].file_name = st[j].file_name => i = j}
FinalInputs ==
  {o \in [fields : SUBSET OutputFields, project_structure : Structures] :
     "project_structure" \notin o.fields => o.project_structure = <<>>}

\* phase3_result: the integrator's record; call tells the integrator call of
\* the activation that returned it, and run the activation (the number of
\* restarts before it).
NoPhase3 ==
  [output |-> [fields |-> {}, project_structure |-> <<>>], call |-> 0,
   run |-> 0]

ErrorLists == {<<>>, <<"e1">>}
\* specific_tasks_to_fix: every list of up to MaxFix ids, and one list of two
\* ids, so that a listed id has another one after it.
FixLists == SeqsUpTo(TaskIds, MaxFix) \cup {<<2, 1>>}

\* TesterAgent.test_project: the fields of the output the orchestrator reads.
\* errors only differ when a restart is requested, specific_tasks_to_fix only
\* when modifications alone are, and a pass carries both flags or neither.
TesterOutputs ==
  {o \in [status : {"pass", "fail"},
          needs_phase1_restart : BOOLEAN,
          needs_phase2_modifications : BOOLEAN,
          specific_tasks_to_fix : FixLists,
          errors : ErrorLists] :
     /\ ~o.needs_phase1_restart => o.errors = <<>>
     /\ (~o.needs_phase2_modifications \/ o.needs_phase1_restart
           \/ o.status = "pass") => o.specific_tasks_to_fix = <<>>
     /\ o.status = "pass" =>
          /\ o.errors = <<>>
          /\ o.needs_phase1_restart = o.needs_phase2_modifications}

NoTest == [output |-> [status |-> "none", needs_phase1_restart |-> FALSE,
                       needs_phase2_modifications |-> FALSE,
                       specific_tasks_to_fix |-> <<>>, errors |-> <<>>],
           tested |-> 0, run |-> 0]

\* ------------------------------------------------------------- orchestrator
VARIABLES
  pc,             \* the position in process_project
  user_prompt,    \* the argument of the current activation
  restarts,       \* the recursive calls made so far
  generated,      \* the generation outcomes the step just taken awaited, in order
  exception,      \* the exception that left process_project, if any
  phase_results,  \* self.phase_results, keys 1..4 as p1..p4
  phase2_results, \* the local list of task results
  phase3_result,  \* the local integration result
  iteration,      \* the loop variable of the refinement loop
  fix_queue,      \* the ids of tasks_to_fix not yet handled
  new_result,     \* the local new_result, unbound until a coder task is re-run
  result,         \* the record process_project returned
  calls,          \* the calls this activation has made, by collaborator
  response,       \* what the request handler answered
  clock,          \* the wall clock, in seconds
  requests,       \* the requests the service is handling, by request
  instances,      \* the ProjectOrchestrator instances constructed so far
  files           \* the files under generated_projects/, by path

run_vars == <<pc, user_prompt, restarts, generated, exception, phase_results,
              phase2_results, phase3_result, iteration, fix_queue, new_result,
              result, calls, response>>
service_vars == <<clock, requests, instances, files>>
vars == <<pc, user_prompt, restarts, generated, exception, phase_results,
          phase2_results, phase3_result, iteration, fix_queue, new_result,
          result, calls, response, clock, requests, instances, files>>

\* The service before any request is handled: two requests are due, no
\* orchestrator is constructed and generated_projects/ is empty.
Requests == {1, 2}
NoRequest == [pc |-> "new", orchestrator |-> 0, project_id |-> -1, phase |-> 0]
ServiceInit ==
  /\ clock = 0
  /\ requests = [r \in Requests |-> NoRequest]
  /\ instances = <<>>
  /\ files = {}

Unbound == [bound |-> FALSE, value |-> NoResult]
Bound(r) == [bound |-> TRUE, value |-> r]

NoCalls ==
  [analyze |-> 0, task |-> 0, integrate |-> 0, test |-> 0, final |-> 0,
   modify |-> 0]
NoPhases == [p1 |-> NoPhase1, p2 |-> <<>>, p3 |-> NoPhase3, p4 |-> NoTest]
NoFinal == [files_created |-> <<>>, total_files |-> 0, saved |-> <<>>]
NoReturn == [status |-> "none", description |-> <<>>, phases |-> NoPhases,
             final_project |-> NoFinal, assembled_from |-> 0]
NoResponse == [status_code |-> 0, content |-> NoReturn, detail |-> ""]

\* self.phase_results as a recursive activation finds it: the entries of the
\* abandoned attempt, test_result the one that asked for the restart. Entries
\* 1 and 2 are overwritten before anything reads them, and the model keeps of
\* them only that they are the abandoned attempt's.
Abandoned(test_result) ==
  [phase_results EXCEPT
     !.p1 = [NoPhase1 EXCEPT !.status = "abandoned"],
     !.p2 = <<[NoResult EXCEPT !.status = "abandoned"]>>,
     !.p4 = test_result]

\* project_spec = phase1_result["result"]
project_spec == phase_results.p1.result

Count(op, n) == [calls EXCEPT ![op] = @ + n]

KeyErrorTasks == [type |-> "KeyError", msg |-> "'tasks'"]
UnboundLocal ==
  [type |-> "UnboundLocalError",
   msg |-> "local variable 'new_result' referenced before assignment"]

Init ==
  /\ pc = "analyze"
  /\ user_prompt \in UserPrompts
  /\ restarts = 0
  /\ generated = <<>>
  /\ exception = NoExc
  /\ phase_results = NoPhases
  /\ phase2_results = <<>>
  /\ phase3_result = NoPhase3
  /\ iteration = 0
  /\ fix_queue = <<>>
  /\ new_result = Unbound
  /\ result = NoReturn
  /\ calls = NoCalls
  /\ response = NoResponse
  /\ ServiceInit

\* The task loop: every task dispatched in list order, up to the first call an
\* exception leaves (the loop has no handler of its own).
RunTasks(tasks, gens) == [i \in 1 .. Len(tasks) |-> Dispatch(tasks[i], gens[i])]
Escapes(outs) == \E i \in 1 .. Len(outs) : outs[i].raised
FirstEscape(outs) ==
  CHOOSE i \in 1 .. Len(outs) :
    outs[i].raised /\ \A j \in 1 .. i - 1 : ~outs[j].raised
Values(outs) == [i \in 1 .. Len(outs) |-> outs[i].value]

\* Phases 1 and 2: analyze_project over the bodies B, then the task loop.
AnalyzeAndExecute(B) ==
  /\ pc = "analyze"
  /\ \E gen \in GenOutcomes(B) :
       LET r == AnalyzeProject(user_prompt, gen)
           spec == r.value.result
       IN IF r.raised
            THEN /\ pc' = "raised"
                 /\ exception' = r.exc
                 /\ generated' = <<gen>>
                 /\ calls' = Count("analyze", 1)
                 /\ UNCHANGED <<phase_results, phase2_results>>
            ELSE IF ~spec.has_tasks
              THEN \* project_spec["tasks"] of a repaired record without tasks
                   /\ pc' = "raised"
                   /\ exception' = KeyErrorTasks
                   /\ generated' = <<gen>>
                   /\ calls' = Count("analyze", 1)
                   /\ phase_results' = [phase_results EXCEPT !.p1 = r.value]
                   /\ UNCHANGED phase2_results
              ELSE \E gens \in [1 .. Len(spec.tasks) -> GenOutcomes(TaskBodies)] :
                     LET outs == RunTasks(spec.tasks, gens)
                     IN IF Escapes(outs)
                          THEN /\ pc' = "raised"
                               /\ exception' = outs[FirstEscape(outs)].exc
                               /\ generated' =
                                    <<gen>> \o SubSeq(gens, 1, FirstEscape(outs))
                               /\ phase2_results' =
                                    Values(SubSeq(outs, 1, FirstEscape(outs) - 1))
                               /\ phase_results' =
                                    [phase_results EXCEPT !.p1 = r.value]
                               /\ calls' = [calls EXCEPT
                                              !.analyze = 1,
                                              !.task = FirstEscape(outs)]
                          ELSE /\ pc' = "integrate"
                               /\ generated' = <<gen>> \o gens
                               /\ phase2_results' = Values(outs)
                               /\ phase_results' =
                                    [phase_results EXCEPT
                                       !.p1 = r.value, !.p2 = phase2_results']
                               /\ calls' = [calls EXCEPT
                                              !.analyze = 1,
                                              !.task = Len(spec.tasks)]
                               /\ UNCHANGED exception
  /\ UNCHANGED <<user_prompt, restarts, phase3_result, iteration, fix_queue,
                 new_result, result>>
  /\ UNCHANGED <<response, service_vars>>

\* Phase 3: the integration after phase 2.
Integrate ==
  /\ pc = "integrate"
  /\ \E out \in IntegrationOutputs :
       /\ phase3_result' = [output |-> out, call |-> calls.integrate + 1,
                           run |-> restarts]
       /\ phase_results' = [phase_results EXCEPT !.p3 = phase3_result']
  /\ calls' = Count("integrate", 1)
  /\ iteration' = 0
  /\ pc' = "test"
  /\ generated' = <<>>
  /\ UNCHANGED <<user_prompt, restarts, exception, phase2_results,
                 fix_queue, new_result, result>>
  /\ UNCHANGED <<response, service_vars>>

\* Decide with the modification request tested before the restart request.
DecideModifyFirst(o) ==
  IF o.status = "pass" THEN "pass"
  ELSE IF o.needs_phase2_modifications THEN "modify"
  ELSE IF o.needs_phase1_restart THEN "restart"
  ELSE "continue"

\* The branch of the refinement loop on the tester's output.
Decide(o) ==
  IF o.status = "pass" THEN "pass"
  ELSE IF o.needs_phase1_restart THEN "restart"
  ELSE IF o.needs_phase2_modifications THEN "modify"
  ELSE "continue"

\* str(list): the brackets around the items.
ReprList(errors) == <<"[">> \o errors \o <<"]">>

\* ImprovedPrompt without the original prompt.
ImprovedPromptIssuesOnly(prompt, errors) ==
  <<"\n\nIssues to fix: ">> \o ReprList(errors)

\* f"{user_prompt}\n\nIssues to fix: {errors}"
ImprovedPrompt(prompt, errors) ==
  prompt \o <<"\n\nIssues to fix: ">> \o ReprList(errors)

\* AfterPass with one iteration too many, and with a break after the first.
AfterPassOffByOne(it) == IF it + 1 <= max_iterations THEN "test" ELSE "final"
AfterPassBreaks(it) == "final"

\* The end of one pass of for iteration in range(max_iterations).
AfterPass(it) == IF it + 1 < max_iterations THEN "test" ELSE "final"

\* IterationOfRestart with the loop counter carried into the recursive call:
\* restarts would draw on one iteration budget.
IterationOfRestartCarried(it) == it + 1

\* for iteration in range(max_iterations), as the recursive activation enters
\* it: the loop of the activation left at iteration it counts for nothing.
IterationOfRestart(it) == 0

\* Phase 4: one tester call and the branch taken on its output, the tester
\* answering from outputs; depth caps the recursion.
TestOn(outputs, depth) ==
  /\ pc = "test"
  /\ \E o \in outputs :
       /\ Decide(o) = "restart" => restarts < depth
       /\ phase_results' =
            IF Decide(o) = "restart"
              THEN Abandoned([output |-> o, tested |-> phase3_result.call,
                              run |-> restarts])
              ELSE [phase_results EXCEPT
                      !.p4 = [output |-> o, tested |-> phase3_result.call,
                              run |-> restarts]]
       /\ CASE Decide(o) = "pass" ->
                 /\ pc' = "final"
                 /\ calls' = Count("test", 1)
                 /\ UNCHANGED <<user_prompt, restarts, phase2_results,
                                phase3_result, iteration, fix_queue, new_result>>
            [] Decide(o) = "restart" ->
                 \* return await self.process_project(improved_prompt)
                 /\ pc' = "analyze"
                 /\ user_prompt' = ImprovedPrompt(user_prompt, o.errors)
                 /\ restarts' = restarts + 1
                 /\ phase2_results' = <<>>
                 /\ phase3_result' = NoPhase3
                 /\ iteration' = IterationOfRestart(iteration)
                 /\ fix_queue' = <<>>
                 /\ new_result' = Unbound
                 /\ calls' = NoCalls
            [] Decide(o) = "modify" ->
                 /\ fix_queue' = o.specific_tasks_to_fix
                 /\ pc' = IF o.specific_tasks_to_fix = <<>>
                            THEN "reintegrate" ELSE "fix"
                 /\ calls' = [Count("test", 1) EXCEPT !.modify = @ + 1]
                 /\ UNCHANGED <<user_prompt, restarts, phase2_results,
                                phase3_result, iteration, new_result>>
            [] Decide(o) = "continue" ->
                 /\ iteration' = iteration + 1
                 /\ pc' = AfterPass(iteration)
                 /\ calls' = Count("test", 1)
                 /\ UNCHANGED <<user_prompt, restarts, phase2_results,
                                phase3_result, fix_queue, new_result>>
  /\ generated' = <<>>
  /\ UNCHANGED <<exception, result>>
  /\ UNCHANGED <<response, service_vars>>

Test == TestOn(TesterOutputs, MaxRestarts)

\* next((t for t in project_spec["tasks"] if t["id"] == task_id), None)
HasTask(tasks, task_id) == \E i \in 1 .. Len(tasks) : tasks[i].id = task_id
FirstTask(tasks, task_id) ==
  tasks[CHOOSE i \in 1 .. Len(tasks) :
          tasks[i].id = task_id /\ \A j \in 1 .. i - 1 : tasks[j].id # task_id]

\* for i, res in enumerate(phase2_results): if res["task_id"] == task_id: ... break
HasMatch(results, task_id) ==
  \E i \in 1 .. Len(results) : results[i].task_id = task_id
FirstMatch(results, task_id) ==
  CHOOSE i \in 1 .. Len(results) :
    results[i].task_id = task_id
    /\ \A j \in 1 .. i - 1 : results[j].task_id # task_id
\* Splice without the break: every match is replaced.
SpliceAll(results, task_id, r) ==
  [i \in 1 .. Len(results) |->
     IF results[i].task_id = task_id THEN r ELSE results[i]]

Splice(results, task_id, r) ==
  IF HasMatch(results, task_id)
    THEN [results EXCEPT ![FirstMatch(results, task_id)] = r]
    ELSE results

AfterFix(queue) == IF Len(queue) = 1 THEN "reintegrate" ELSE "fix"

\* A listed id of a coder task: the task is re-executed and its result spliced in.
FixCoderTask ==
  /\ pc = "fix"
  /\ HasTask(project_spec.tasks, Head(fix_queue))
  /\ FirstTask(project_spec.tasks, Head(fix_queue)).agent_type = "coder"
  /\ \E gen \in GenOutcomes(TaskBodies) :
       LET task == FirstTask(project_spec.tasks, Head(fix_queue))
           out == CoderExecuteTask(task, gen)
       IN /\ generated' = <<gen>>
          /\ IF out.raised
               THEN /\ pc' = "raised"
                    /\ exception' = out.exc
                    /\ UNCHANGED <<new_result, phase2_results, fix_queue>>
               ELSE /\ new_result' = Bound(out.value)
                    /\ phase2_results' =
                         Splice(phase2_results, Head(fix_queue), out.value)
                    /\ fix_queue' = Tail(fix_queue)
                    /\ pc' = AfterFix(fix_queue)
                    /\ UNCHANGED exception
  /\ phase_results' = [phase_results EXCEPT !.p2 = phase2_results']
  /\ calls' = Count("task", 1)
  /\ UNCHANGED <<user_prompt, restarts, phase3_result, iteration, result>>
  /\ UNCHANGED <<response, service_vars>>

\* A listed id of a task of another agent type: no agent runs, and the update
\* loop reads new_result as it stands.
FixOtherTask ==
  /\ pc = "fix"
  /\ HasTask(project_spec.tasks, Head(fix_queue))
  /\ FirstTask(project_spec.tasks, Head(fix_queue)).agent_type # "coder"
  /\ IF HasMatch(phase2_results, Head(fix_queue)) /\ ~new_result.bound
       THEN /\ pc' = "raised"
            /\ exception' = UnboundLocal
            /\ UNCHANGED <<phase2_results, phase_results, fix_queue>>
       ELSE /\ phase2_results' =
                 Splice(phase2_results, Head(fix_queue), new_result.value)
            /\ phase_results' = [phase_results EXCEPT !.p2 = phase2_results']
            /\ fix_queue' = Tail(fix_queue)
            /\ pc' = AfterFix(fix_queue)
            /\ UNCHANGED exception
  /\ generated' = <<>>
  /\ UNCHANGED <<user_prompt, restarts, phase3_result, iteration,
                 new_result, result, calls>>
  /\ UNCHANGED <<response, service_vars>>

\* FixMissingTask without the guard  if task:  -- None is subscripted.
NoneNotSubscriptable ==
  [type |-> "TypeError", msg |-> "'NoneType' object is not subscriptable"]
FixMissingTaskUnguarded ==
  /\ pc = "fix"
  /\ ~HasTask(project_spec.tasks, Head(fix_queue))
  /\ pc' = "raised"
  /\ exception' = NoneNotSubscriptable
  /\ generated' = <<>>
  /\ UNCHANGED <<user_prompt, restarts, phase_results, phase2_results,
                 phase3_result, iteration, fix_queue, new_result, result,
                 calls>>
  /\ UNCHANGED <<response, service_vars>>

\* A listed id that no task of the spec has.
FixMissingTask ==
  /\ pc = "fix"
  /\ ~HasTask(project_spec.tasks, Head(fix_queue))
  /\ fix_queue' = Tail(fix_queue)
  /\ pc' = AfterFix(fix_queue)
  /\ generated' = <<>>
  /\ UNCHANGED <<user_prompt, restarts, exception, phase_results,
                 phase2_results, phase3_result, iteration, new_result, result,
                 calls>>
  /\ UNCHANGED <<response, service_vars>>

\* Reintegrate with the integrator's result dropped: phase3_result keeps
\* the result the tester was given.
ReintegrateDropsResult ==
  /\ pc = "reintegrate"
  /\ calls' = Count("integrate", 1)
  /\ iteration' = iteration + 1
  /\ pc' = AfterPass(iteration)
  /\ generated' = <<>>
  /\ UNCHANGED <<user_prompt, restarts, exception, phase_results,
                 phase2_results, phase3_result, fix_queue, new_result, result>>
  /\ UNCHANGED <<response, service_vars>>

\* The re-integration that ends a modification pass.
Reintegrate ==
  /\ pc = "reintegrate"
  /\ \E out \in IntegrationOutputs :
       phase3_result' = [output |-> out, call |-> calls.integrate + 1,
                           run |-> restarts]
  /\ calls' = Count("integrate", 1)
  /\ iteration' = iteration + 1
  /\ pc' = AfterPass(iteration)
  /\ generated' = <<>>
  /\ UNCHANGED <<user_prompt, restarts, exception, phase_results,
                 phase2_results, fix_queue, new_result, result>>
  /\ UNCHANGED <<response, service_vars>>

\* len(content) > 10, the least length of a project_structure entry written.
MinContentLen == 10

\* The test of a project_structure entry with the bound included.
WritesEntryAtBound(content) == content.textual /\ content.len >= MinContentLen

\* isinstance(content, str) and len(content) > 10
WritesEntry(content) == content.textual /\ content.len > MinContentLen

\* os.path.join(project_dir, name)
PathOf(name) == <<"project_dir", name>>

\* One block of _generate_final_project: save_file, then files_created.append.
SaveAndAppend(acc, name) ==
  [saved |-> Append(acc.saved, PathOf(name)),
   files_created |-> Append(acc.files_created, name)]

\* The loop over project_structure.items().
RECURSIVE SaveStructure(_, _)
SaveStructure(acc, structure) ==
  IF structure = <<>> THEN acc
  ELSE SaveStructure(
         IF WritesEntry(Head(structure).content)
           THEN SaveAndAppend(acc, Head(structure).file_name) ELSE acc,
         Tail(structure))

\* _generate_final_project: the names appended to files_created and, beside
\* them, the paths given to save_file (saved), both in the order of the code.
GenerateFinalProject(integration) ==
  LET a0 == [saved |-> <<>>, files_created |-> <<>>]
      a1 == IF "main_file" \in integration.fields
              THEN SaveAndAppend(a0, "main.py") ELSE a0
      a2 == IF "documentation" \in integration.fields
              THEN SaveAndAppend(a1, "README.md") ELSE a1
      a3 == IF "dependencies" \in integration.fields
              THEN SaveAndAppend(a2, "requirements.txt") ELSE a2
      a4 == IF "project_structure" \in integration.fields
              THEN SaveStructure(a3, integration.project_structure) ELSE a3
  IN [files_created |-> a4.files_created,
      total_files |-> Len(a4.files_created),
      saved |-> a4.saved]

\* FinalInput read from self.phase_results instead of the local.
FinalInputStale == phase_results.p3

\* The integration output final assembly is given.
FinalInput == phase3_result

\* The places of the "Issues to fix" parts in prompt: one for each recursive
\* call on the way to the activation of prompt.
IssueParts(prompt) ==
  {i \in 1 .. Len(prompt) : prompt[i] = "\n\nIssues to fix: "}
IsImproved(prompt) == IssueParts(prompt) # {}

\* The prompts of the activations around the activation of prompt, the
\* nearest first: what stands before the last "Issues to fix" part, before
\* the last but one, and so on.
CallerPrompts(prompt) ==
  LET parts == IssueParts(prompt)
  IN [k \in 1 .. Cardinality(parts) |->
        SubSeq(prompt, 1,
               (CHOOSE i \in parts :
                  Cardinality({j \in parts : j >= i}) = k) - 1)]

\* ReturnOfOuter with a record of the outer activation's own put around the
\* recursive call's.
ReturnOfOuterOwnRecord(inner, outer_prompt) ==
  [inner EXCEPT !.description = outer_prompt]

\* return await self.process_project(improved_prompt): what the activation
\* of outer_prompt returns when its recursive call returned inner.
ReturnOfOuter(inner, outer_prompt) == inner

\* The record the outermost call returns when the activation of prompt
\* returns record: the return passes through callers k, k + 1, ... in turn.
RECURSIVE UnwindThrough(_, _, _)
UnwindThrough(record, callers, k) ==
  IF k > Len(callers) THEN record
  ELSE UnwindThrough(ReturnOfOuter(record, callers[k]), callers, k + 1)
Unwind(record, prompt) == UnwindThrough(record, CallerPrompts(prompt), 1)

\* Final assembly and the return of process_project.
FinalAssembly ==
  /\ pc = "final"
  /\ result' =
       Unwind([status |-> "success",
               description |-> user_prompt,
               phases |-> phase_results,
               final_project |-> GenerateFinalProject(FinalInput.output),
               assembled_from |-> FinalInput.call],
              user_prompt)
  /\ calls' = Count("final", 1)
  /\ pc' = "done"
  /\ generated' = <<>>
  /\ UNCHANGED <<user_prompt, restarts, exception, phase_results,
                 phase2_results, phase3_result, iteration, fix_queue,
                 new_result>>
  /\ UNCHANGED <<response, service_vars>>

\* An awaited call of the step at hand raises: the integrator, the tester,
\* final assembly, or the save that follows. process_project has no handler,
\* so the exception leaves it there.
CollaboratorErrors ==
  [integrate |-> [type |-> "Exception", msg |-> "integration failed"],
   reintegrate |-> [type |-> "Exception", msg |-> "integration failed"],
   test |-> [type |-> "Exception", msg |-> "testing failed"],
   final |-> [type |-> "OSError", msg |-> "save failed"]]
CallOf ==
  [integrate |-> "integrate", reintegrate |-> "integrate", test |-> "test",
   final |-> "final"]

CallRaises ==
  /\ pc \in {"integrate", "reintegrate", "test", "final"}
  /\ exception' = CollaboratorErrors[pc]
  /\ calls' = Count(CallOf[pc], 1)
  /\ pc' = "raised"
  /\ generated' = <<>>
  /\ UNCHANGED <<user_prompt, restarts, phase_results, phase2_results,
                 phase3_result, iteration, fix_queue, new_result, result>>
  /\ UNCHANGED <<response, service_vars>>

\* The handler with the exception swallowed: it answers 200 either way.
ResponseOfSwallows(raised, e, record) ==
  [status_code |-> 200, content |-> record, detail |-> ""]

\* The request handler around process_project: JSONResponse(result, 200), or
\* HTTPException(500, detail = str(e)) for any exception.
ResponseOf(raised, e, record) ==
  IF raised THEN [status_code |-> 500, content |-> NoReturn, detail |-> Str(e)]
  ELSE [status_code |-> 200, content |-> record, detail |-> ""]

\* The outermost process_project call has returned or raised, and the handler
\* answers the request.
Respond ==
  /\ pc \in {"done", "raised"}
  /\ response = NoResponse
  /\ response' = ResponseOf(pc = "raised", exception, result)
  /\ UNCHANGED <<pc, user_prompt, restarts, generated, exception,
                 phase_results, phase2_results, phase3_result, iteration,
                 fix_queue, new_result, result, calls>>
  /\ UNCHANGED service_vars

Next ==
  \/ AnalyzeAndExecute(PipelineBodies)
  \/ Integrate
  \/ Test
  \/ FixCoderTask
  \/ FixOtherTask
  \/ FixMissingTask
  \/ Reintegrate
  \/ FinalAssembly

Spec == Init /\ [][Next]_vars

\* The run with collaborators that may raise, and the request handler around
\* it; the bodies are those of one task at most.
HandledBodies ==
  BodiesOf(PipelineTexts \cup { <<"{", "T", "}">> }, SeqsUpTo(LLMTasks, 1))

NextEX ==
  \/ AnalyzeAndExecute(HandledBodies)
  \/ Integrate
  \/ Test
  \/ FixCoderTask
  \/ FixOtherTask
  \/ FixMissingTask
  \/ Reintegrate
  \/ FinalAssembly
  \/ CallRaises
  \/ Respond

SpecEX == Init /\ [][NextEX]_vars

\* The pipeline under a tester that never asks for phase-2 modifications,
\* with the recursion followed MaxDepth deep. Every awaited call returns, so
\* the activation always takes its next step.
LoopOutputs ==
  {o \in TesterOutputs :
     /\ ~o.needs_phase2_modifications
     /\ o.needs_phase1_restart => o.errors # <<>>}
NextRS ==
  \/ AnalyzeAndExecute(HandledBodies)
  \/ Integrate
  \/ TestOn(LoopOutputs, MaxDepth)
  \/ FinalAssembly
SpecRS == Init /\ [][NextRS]_vars /\ WF_vars(NextRS)

\* The phase-1 agent alone, over every body.
Analyze(B) ==
  /\ pc = "analyze"
  /\ \E gen \in GenOutcomes(B) :
       LET r == AnalyzeProject(user_prompt, gen)
       IN /\ generated' = <<gen>>
          /\ calls' = Count("analyze", 1)
          /\ pc' = IF r.raised THEN "raised" ELSE "analyzed"
          /\ exception' = r.exc
          /\ phase_results' =
               IF r.raised THEN phase_results
               ELSE [phase_results EXCEPT !.p1 = r.value]
  /\ UNCHANGED <<user_prompt, restarts, phase2_results, phase3_result,
                 iteration, fix_queue, new_result, result>>
  /\ UNCHANGED <<response, service_vars>>

\* The prompts given to the phase-1 agent alone.
PMPrompts == {<<"p">>, <<"q">>}

InitPM ==
  /\ pc = "analyze"
  /\ user_prompt \in PMPrompts
  /\ restarts = 0
  /\ generated = <<>>
  /\ exception = NoExc
  /\ phase_results = NoPhases
  /\ phase2_results = <<>>
  /\ phase3_result = NoPhase3
  /\ iteration = 0
  /\ fix_queue = <<>>
  /\ new_result = Unbound
  /\ result = NoReturn
  /\ calls = NoCalls
  /\ response = NoResponse
  /\ ServiceInit

NextPM == Analyze(Bodies)

SpecPM == InitPM /\ [][NextPM]_vars

\* Final assembly alone, over every shape of integration output: the run took
\* the fallback path, both tasks completed, the integrator returned the output
\* and the first tester call passed.
PassOutput ==
  [status |-> "pass", needs_phase1_restart |-> FALSE,
   needs_phase2_modifications |-> FALSE, specific_tasks_to_fix |-> <<>>,
   errors |-> <<>>]

InitFP ==
  /\ pc = "final"
  /\ user_prompt \in UserPrompts
  /\ restarts = 0
  /\ generated = <<>>
  /\ exception = NoExc
  /\ phase2_results \in
       {Values(RunTasks(FallbackTasks, gens)) :
          gens \in [1 .. 2 -> GenOutcomes(TaskBodies)]}
  /\ phase3_result \in
       {[output |-> o, call |-> 1, run |-> 0] : o \in FinalInputs}
  /\ phase_results =
       [p1 |-> CreateFallbackTasks(user_prompt).value,
        p2 |-> phase2_results,
        p3 |-> phase3_result,
        p4 |-> [output |-> PassOutput, tested |-> 1, run |-> 0]]
  /\ iteration = 0
  /\ fix_queue = <<>>
  /\ new_result = Unbound
  /\ result = NoReturn
  /\ calls = [analyze |-> 1, task |-> 2, integrate |-> 1, test |-> 1,
              final |-> 0, modify |-> 0]
  /\ response = NoResponse
  /\ ServiceInit

NextFP == FinalAssembly

SpecFP == InitFP /\ [][NextFP]_vars

\* ------------------------------------------------------------- service
\* The request handler and the runs of two requests, interleaved at their
\* awaits. Of a run the service keeps what the runs could share: the
\* orchestrator instance it works on, the project directory it writes to and
\* the audit files it saves there.

\* orchestrator = ProjectOrchestrator(): the instance the handler works on.
NewOrchestrator(insts) == Len(insts) + 1

\* The audit file a phase saves, and the file of final assembly.
AuditFile(phase) ==
  CASE phase = 1 -> "phase1_analysis.json"
    [] phase = 2 -> "task_1_coder.json"
    [] phase = 3 -> "phase3_integration.json"
    [] phase = 4 -> "phase4_iteration_1.json"
    [] OTHER -> "main.py"

\* project_dir = f"generated_projects/project_{project_id}"
ProjectDir(project_id) == <<"generated_projects", project_id>>

\* file_service.save_json / save_file by request r.
Save(r, name) ==
  files \cup {[path |-> <<ProjectDir(requests[r].project_id), name>>,
               by |-> r]}

\* The clock moves on by a second.
Tick ==
  /\ clock < MaxClock
  /\ clock' = clock + 1
  /\ UNCHANGED <<requests, instances, files>>
  /\ UNCHANGED run_vars

\* The handler of a request constructs its orchestrator.
Handle(r) ==
  /\ requests[r].pc = "new"
  /\ LET o == NewOrchestrator(instances)
     IN /\ instances' = IF o > Len(instances)
                          THEN Append(instances, [phase_results |-> {}])
                          ELSE instances
        /\ requests' = [requests EXCEPT ![r].pc = "start",
                                        ![r].orchestrator = o]
  /\ UNCHANGED <<clock, files>>
  /\ UNCHANGED run_vars

\* process_project begins: the project id is the time to the second, and the
\* directory is made unless it is there.
Start(r) ==
  /\ requests[r].pc = "start"
  /\ requests' = [requests EXCEPT ![r].pc = "run", ![r].phase = 1,
                                  ![r].project_id = clock]
  /\ UNCHANGED <<clock, instances, files>>
  /\ UNCHANGED run_vars

\* One phase of the run of r: its entry of self.phase_results is set and its
\* audit file saved.
RunPhase(r) ==
  /\ requests[r].pc = "run"
  /\ instances' =
       [instances EXCEPT ![requests[r].orchestrator].phase_results =
          @ \cup {[phase |-> requests[r].phase, by |-> r]}]
  /\ files' = Save(r, AuditFile(requests[r].phase))
  /\ requests' =
       IF requests[r].phase < 4
         THEN [requests EXCEPT ![r].phase = @ + 1]
         ELSE [requests EXCEPT ![r].pc = "final"]
  /\ UNCHANGED clock
  /\ UNCHANGED run_vars

\* Final assembly of the run of r, and the response.
Assemble(r) ==
  /\ requests[r].pc = "final"
  /\ files' = Save(r, AuditFile(5))
  /\ requests' = [requests EXCEPT ![r].pc = "done"]
  /\ UNCHANGED <<clock, instances>>
  /\ UNCHANGED run_vars

NextCC ==
  \/ Tick
  \/ \E r \in Requests : Handle(r)
  \/ \E r \in Requests : Start(r)
  \/ \E r \in Requests : RunPhase(r)
  \/ \E r \in Requests : Assemble(r)

SpecCC == Init /\ [][NextCC]_vars

\* ------------------------------------------------------------- properties
TestOut == phase_results.p4.output
LoopPcs == {"test", "fix", "reintegrate"}
IssuesMarker == "\n\nIssues to fix: "

\* The tester calls of the activation once the step from the current state is
\* taken (a step from "test" is a tester call).
TesterCallsAfter == IF pc = "test" THEN calls.test + 1 ELSE calls.test

IsStrictPrefix(a, b) == Len(a) < Len(b) /\ SubSeq(b, 1, Len(a)) = a
Appended(a, b) == SubSeq(b, Len(a) + 1, Len(b))

\* C1: in one activation the tester is called at most max_iterations times,
\* whatever it answers (a tester call is only ever made with fewer than
\* max_iterations calls behind it, the restarting call included), and an
\* activation that is past its first loop pass has called it at least once.
C1_TesterCallsBounded ==
  /\ calls.test <= max_iterations
  /\ pc = "test" => calls.test < max_iterations
  /\ pc \in {"fix", "reintegrate", "final", "done"} => calls.test >= 1

C1_Witness == pc = "done" /\ calls.test = max_iterations /\ TestOut.status # "pass"

\* C2 as claimed: a pass goes to final assembly with no other call in between,
\* and an output that is not a pass never ends the loop before max_iterations
\* tester calls.
C2_StopsOnlyOnPass ==
  [][/\ (pc = "test" /\ TestOut'.status = "pass")
          => (pc' = "final" /\ calls' = Count("test", 1))
     /\ pc = "final" => (pc' = "done" /\ calls' = Count("final", 1))
     /\ (pc \in LoopPcs /\ pc' \notin LoopPcs /\ TestOut'.status # "pass")
          => TesterCallsAfter = max_iterations]_vars

\* C2 as amended: a pass goes to final assembly with no other call in between,
\* and an output that is not a pass ends the loop before max_iterations tester
\* calls only by a restart from phase 1 or by an exception: final assembly is
\* not reached that way.
C2_StopsOnPassOrLeaves ==
  [][/\ (pc = "test" /\ TestOut'.status = "pass")
          => (pc' = "final" /\ calls' = Count("test", 1))
     /\ pc = "final" => (pc' = "done" /\ calls' = Count("final", 1))
     /\ (pc \in LoopPcs /\ pc' \notin LoopPcs /\ TestOut'.status # "pass"
           /\ TesterCallsAfter < max_iterations)
          => \/ /\ pc' = "analyze"
                /\ restarts' = restarts + 1
                /\ TestOut'.needs_phase1_restart
             \/ pc' = "raised"]_vars

C2_Witness ==
  pc = "final" /\ TestOut.status = "pass" /\ calls.test = 2 /\ calls.integrate = 2

\* C3: the tester's output is read in the order pass, restart, modifications:
\* a pass goes to final assembly with no restart and no task re-run even with
\* both flags set; an output that is not a pass with both flags set restarts
\* from phase 1 without a task re-run or a re-integration in the activation it
\* leaves; modifications are taken only when neither of the others applies.
C3_PriorityOrder ==
  [][pc = "test" =>
       /\ TestOut'.status = "pass"
            => /\ pc' = "final"
               /\ restarts' = restarts
               /\ calls' = Count("test", 1)
               /\ phase2_results' = phase2_results
               /\ phase3_result' = phase3_result
       /\ (TestOut'.status # "pass" /\ TestOut'.needs_phase1_restart)
            => /\ pc' = "analyze"
               /\ restarts' = restarts + 1
               /\ calls' = NoCalls
               /\ fix_queue' = <<>>
       /\ (TestOut'.status # "pass" /\ ~TestOut'.needs_phase1_restart
             /\ TestOut'.needs_phase2_modifications)
            => /\ pc' \in {"fix", "reintegrate"}
               /\ fix_queue' = TestOut'.specific_tasks_to_fix
               /\ restarts' = restarts
       /\ pc' \in {"fix", "reintegrate"}
            => (TestOut'.status # "pass" /\ ~TestOut'.needs_phase1_restart)]_vars

C3_Witness ==
  /\ pc = "analyze"
  /\ restarts = 1
  /\ TestOut.status = "fail"
  /\ TestOut.needs_phase1_restart
  /\ TestOut.needs_phase2_modifications

\* C4: an output that is not a pass and asks for a restart starts a new
\* activation at phase 1 whose prompt is the old prompt followed by the issues
\* marker and the text of the tester's errors, so strictly longer; the new
\* activation runs the analysis, every task and the integration again before
\* it tests.
C4_RestartPrompt ==
  /\ [][/\ (pc = "test" /\ TestOut'.status # "pass"
              /\ TestOut'.needs_phase1_restart)
             => restarts' = restarts + 1
        /\ restarts' # restarts
             => /\ pc = "test"
                /\ pc' = "analyze"
                /\ TestOut'.status # "pass"
                /\ TestOut'.needs_phase1_restart
                /\ IsStrictPrefix(user_prompt, user_prompt')
                /\ Appended(user_prompt, user_prompt')
                     = <<IssuesMarker>> \o ReprList(TestOut'.errors)
                /\ calls' = NoCalls
                /\ phase2_results' = <<>>]_vars
  /\ []((restarts >= 1 /\ pc \in LoopPcs \cup {"final", "done"})
          => /\ calls.analyze = 1
             /\ calls.task >= Len(project_spec.tasks)
             /\ calls.integrate >= 1
             /\ phase_results.p1.status = "completed"
             /\ Len(phase_results.p2) = Len(project_spec.tasks))
  /\ []((restarts >= 1 /\ pc = "done")
          => (calls.test >= 1 /\ result.description = user_prompt))

C4_Witness ==
  /\ pc = "done"
  /\ restarts = 1
  /\ user_prompt = <<"p", IssuesMarker, "[", "e1", "]">>
  /\ calls.task = 2

\* The listed id at the head of the queue names a task of the spec that is not
\* a coder task.
HeadIsOtherTask ==
  /\ pc = "fix"
  /\ HasTask(project_spec.tasks, Head(fix_queue))
  /\ FirstTask(project_spec.tasks, Head(fix_queue)).agent_type # "coder"

\* C5 as claimed: a listed id of a task that is not a coder task is not
\* re-executed, raises no error and leaves the phase-2 results as they are.
C5_OtherTaskLeftAlone ==
  [][HeadIsOtherTask =>
       /\ pc' # "raised"
       /\ calls'.task = calls.task
       /\ phase2_results' = phase2_results]_vars

\* i is the position of the first result whose task_id is id.
IsFirstMatch(results, id, i) ==
  /\ results[i].task_id = id
  /\ \A j \in 1 .. i - 1 : results[j].task_id # id

\* C6: handling one listed id changes at most one element of the phase-2
\* results, the first whose task_id is that id; every other element keeps its
\* value and the length stays; a re-executed task's new result is the element
\* put there; with no matching element nothing changes.
C6_SpliceFrame ==
  [][pc = "fix" =>
       /\ Len(phase2_results') = Len(phase2_results)
       /\ \A i \in 1 .. Len(phase2_results) :
            ~IsFirstMatch(phase2_results, Head(fix_queue), i)
              => phase2_results'[i] = phase2_results[i]
       /\ \A i \in 1 .. Len(phase2_results) :
            (IsFirstMatch(phase2_results, Head(fix_queue), i)
               /\ calls'.task = calls.task + 1 /\ pc' # "raised")
              => /\ phase2_results'[i] = new_result'.value
                 /\ new_result'.bound
                 /\ new_result'.value.task_id = Head(fix_queue)
       /\ phase_results'.p2 = phase2_results']_vars

\* A coder task was just re-executed; the results hold two elements of its
\* task_id, the first is the new result and the second kept another value.
C6_Witness ==
  /\ pc = "reintegrate"
  /\ Len(generated) = 1
  /\ new_result.bound
  /\ Len(phase2_results) = 2
  /\ phase2_results[1].task_id = phase2_results[2].task_id
  /\ phase2_results[1] = new_result.value
  /\ phase2_results[2] # phase2_results[1]

\* C7: after phase 2 the results hold one result per task of the spec, in list
\* order, and the result of a task whose generation call raised is failed with
\* output.error the text of the exception; no exception of a task's generation
\* call leaves process_project.
C7_FailedTaskResult ==
  /\ pc = "integrate"
       => /\ Len(generated) = Len(project_spec.tasks) + 1
          /\ Len(phase2_results) = Len(project_spec.tasks)
          /\ \A i \in 1 .. Len(phase2_results) :
               /\ phase2_results[i].task_id = project_spec.tasks[i].id
               /\ ~generated[i + 1].ok
                    => /\ phase2_results[i].status = "failed"
                       /\ phase2_results[i].output.error
                            = Str(generated[i + 1].exc)
               /\ generated[i + 1].ok => phase2_results[i].status = "completed"
  /\ (pc = "raised" /\ exception \in GenErrors) => calls.task = 0

\* The first task's generation call raised and the second task still ran.
C7_Witness ==
  /\ pc = "integrate"
  /\ Len(phase2_results) = 2
  /\ ~generated[2].ok
  /\ generated[3].ok
  /\ phase2_results[1].status = "failed"
  /\ phase2_results[1].output.error = "No Hugging Face models available"
  /\ phase2_results[2].status = "completed"

\* C8 as claimed: whenever analyze_project returns, its result holds a
\* non-empty tasks sequence.
C8_NonEmptyTasks ==
  pc = "analyzed"
    => /\ phase_results.p1.result.has_tasks
       /\ phase_results.p1.result.tasks # <<>>

\* The body of the generation call that answered.
BodyText == generated[1].content.text
Answered == pc # "analyze" /\ generated[1].ok
ValidWithTasks == IsJsonObject(BodyText) /\ HasChar(BodyText, "T")

TookFallback == phase_results.p1.note = "Used fallback task structure"

\* C11: on the fallback path phase 2 runs to its end (task 2, of agent_type
\* "writer", goes to the coder agent), and a run whose first tester call
\* passes is exactly: one analysis, the two tasks in order, one integration,
\* one tester call, one final assembly, and a record of status "success".
C11_FallbackRun ==
  /\ (TookFallback /\ pc = "raised") => calls.test >= 1
  /\ (TookFallback /\ pc \in {"integrate", "test", "final", "done"}
        /\ calls.test <= 1 /\ TestOut.status \in {"none", "pass"})
       => /\ calls.analyze = 1
          /\ calls.task = 2
          /\ Len(phase2_results) = 2
          /\ phase2_results[1].task_id = 1
          /\ phase2_results[2].task_id = 2
          /\ phase2_results[1].agent = "coder"
          /\ phase2_results[2].agent = "coder"
          /\ project_spec.tasks[2].agent_type = "writer"
          /\ calls.integrate = (IF pc = "integrate" THEN 0 ELSE 1)
          /\ calls.test = (IF pc \in {"integrate", "test"} THEN 0 ELSE 1)
          /\ calls.final = (IF pc = "done" THEN 1 ELSE 0)
          /\ pc = "done" => result.status = "success"

C11_Witness ==
  /\ TookFallback
  /\ pc = "done"
  /\ restarts = 0
  /\ calls = [analyze |-> 1, task |-> 2, integrate |-> 1, test |-> 1,
              final |-> 1, modify |-> 0]
  /\ TestOut.status = "pass"
  /\ phase2_results[2].status = "completed"
  /\ result.status = "success"

\* How often files_created names n, and how often final assembly has to
\* write n: once for the field that n belongs to, when the field is present,
\* and once for each project_structure entry of that name whose content is a
\* text of more than 10 characters.
Occurrences(n) ==
  Cardinality({i \in 1 .. Len(result.final_project.files_created) :
                 result.final_project.files_created[i] = n})
Due(n) ==
  LET out == phase3_result.output
  IN (IF n = "main.py" /\ "main_file" \in out.fields THEN 1 ELSE 0)
     + (IF n = "README.md" /\ "documentation" \in out.fields THEN 1 ELSE 0)
     + (IF n = "requirements.txt" /\ "dependencies" \in out.fields
          THEN 1 ELSE 0)
     + Cardinality({i \in 1 .. Len(out.project_structure) :
                      /\ out.project_structure[i].file_name = n
                      /\ out.project_structure[i].content.textual
                      /\ out.project_structure[i].content.len > 10})

\* C12: files_created is exactly the list of files final assembly wrote:
\* main.py iff main_file is present, README.md iff documentation is,
\* requirements.txt iff dependencies is, and the name of a project_structure
\* entry iff its content is a text of more than 10 characters; total_files is
\* the length of files_created; final assembly returns whatever fields are
\* absent.
C12_FilesCreated ==
  /\ pc = "final" => ENABLED FinalAssembly
  /\ pc = "done" =>
       LET fp == result.final_project
       IN /\ Len(fp.saved) = Len(fp.files_created)
          /\ \A i \in 1 .. Len(fp.saved) :
               fp.saved[i] = <<"project_dir", fp.files_created[i]>>
          /\ fp.total_files = Len(fp.files_created)
          /\ \A n \in {"main.py", "README.md", "requirements.txt"}
                        \cup StructureNames :
               Occurrences(n) = Due(n)
          /\ \A i \in 1 .. Len(fp.files_created) :
               fp.files_created[i]
                 \in {"main.py", "README.md", "requirements.txt"}
                     \cup StructureNames

\* main_file is absent, and of two entries the one of 10 characters was
\* skipped and the one of 11 written.
C12_Witness ==
  /\ pc = "done"
  /\ phase3_result.output.fields = {"documentation", "project_structure"}
  /\ Len(phase3_result.output.project_structure) = 2
  /\ phase3_result.output.project_structure[1].content
       = [textual |-> TRUE, len |-> 10]
  /\ phase3_result.output.project_structure[2].content
       = [textual |-> TRUE, len |-> 11]
  /\ result.final_project.files_created
       = <<"README.md", phase3_result.output.project_structure[2].file_name>>
  /\ result.final_project.total_files = 2

\* The body has no '{' or no '}', or the text from its first '{' to its last
\* '}' does not parse.
RepairFails ==
  \/ ~HasChar(BodyText, "{")
  \/ ~HasChar(BodyText, "}")
  \/ Find(BodyText, "{") > RFind(BodyText, "}")
  \/ ~JsonDecodes(Slice(BodyText, Find(BodyText, "{"),
                        RFind(BodyText, "}") + 1))

\* C13: the fallback is taken exactly when the body fails to parse and the
\* repair fails too, and the spec it returns is fixed but for the prompt: two
\* tasks, ids 1 and 2, agent_type coder and writer, task 2 depending on task
\* 1, the description the user_prompt.
C13_FallbackSpec ==
  /\ Answered => (TookFallback <=> (~JsonDecodes(BodyText) /\ RepairFails))
  /\ ~Answered => ~TookFallback
  /\ TookFallback =>
       /\ pc = "analyzed"
       /\ phase_results.p1.status = "completed"
       /\ phase_results.p1.model_used = "fallback"
       /\ phase_results.p1.result.description = user_prompt
       /\ phase_results.p1.result.has_tasks
       /\ Len(phase_results.p1.result.tasks) = 2
       /\ phase_results.p1.result.tasks[1]
            = [id |-> 1, agent_type |-> "coder", dependencies |-> <<>>]
       /\ phase_results.p1.result.tasks[2]
            = [id |-> 2, agent_type |-> "writer", dependencies |-> <<1>>]

\* The fallback was taken for the second prompt and a body whose '}' comes
\* before its '{'.
C13_Witness ==
  /\ TookFallback
  /\ user_prompt = <<"q">>
  /\ HasChar(BodyText, "{")
  /\ HasChar(BodyText, "}")
  /\ Find(BodyText, "{") > RFind(BodyText, "}")
  /\ phase_results.p1.result.description = <<"q">>

\* No task of the spec has the id at the head of the queue.
HeadIsMissing ==
  /\ pc = "fix"
  /\ \A i \in 1 .. Len(project_spec.tasks) :
       project_spec.tasks[i].id # Head(fix_queue)

\* C14: a listed id that no task of the spec has is passed over: no task is
\* executed, the phase-2 results and the phase results stay, nothing is
\* raised, and the loop goes on to the next listed id, or to the
\* re-integration when it was the last.
C14_MissingIdIgnored ==
  [][HeadIsMissing =>
       /\ pc' = (IF Len(fix_queue) > 1 THEN "fix" ELSE "reintegrate")
       /\ fix_queue' = Tail(fix_queue)
       /\ exception' = exception
       /\ calls' = calls
       /\ phase2_results' = phase2_results
       /\ phase_results' = phase_results
       /\ new_result' = new_result]_vars

\* Of the listed ids 2 and 1 the first, which no task has, was passed over
\* and the second is up next.
C14_Witness ==
  /\ pc = "fix"
  /\ TestOut.specific_tasks_to_fix = <<2, 1>>
  /\ fix_queue = <<1>>
  /\ ~HasTask(project_spec.tasks, 2)
  /\ HasTask(project_spec.tasks, 1)
  /\ calls.task = Len(project_spec.tasks)
  /\ phase2_results = phase_results.p2

\* C15 as claimed: two concurrent runs are independent: they work on
\* different orchestrator instances, every entry of an instance's phase
\* results is set by the run that owns the instance, and no file is written
\* by both runs.
C15_RunsIndependent ==
  /\ \A r, q \in Requests :
       (r # q /\ requests[r].orchestrator # 0)
         => requests[r].orchestrator # requests[q].orchestrator
  /\ \A r \in Requests :
       requests[r].orchestrator # 0
         => \A e \in instances[requests[r].orchestrator].phase_results :
              e.by = r
  /\ \A f, g \in files : f.path = g.path => f.by = g.by

\* C16: an exception that leaves process_project (from the phase-1 agent, the
\* integrator, the tester, a save or final assembly; the task agents catch
\* their own) ends the run there: no record is returned, no further phase or
\* final assembly runs, and the request handler answers with a failure that
\* carries the exception's text; only a returned record is answered with 200.
C16_UncaughtReachesBoundary ==
  /\ [](pc = "raised" <=> exception # NoExc)
  /\ [](pc = "raised" => (result = NoReturn /\ calls.final <= 1))
  /\ []((pc = "raised" /\ response = NoResponse) => ENABLED Respond)
  /\ [](response # NoResponse =>
          IF pc = "raised"
            THEN /\ response.status_code = 500
                 /\ response.detail = exception.msg
                 /\ response.content = NoReturn
            ELSE /\ pc = "done"
                 /\ response.status_code = 200
                 /\ response.content = result)
  /\ [][pc = "raised" =>
          /\ pc' = "raised"
          /\ exception' = exception
          /\ result' = result
          /\ calls' = calls
          /\ phase_results' = phase_results
          /\ phase2_results' = phase2_results
          /\ phase3_result' = phase3_result]_vars

\* The second tester call raised: the handler answered 500 and final assembly
\* never ran.
C16_Witness ==
  /\ pc = "raised"
  /\ exception = [type |-> "Exception", msg |-> "testing failed"]
  /\ calls.test = 2
  /\ calls.final = 0
  /\ result = NoReturn
  /\ response.status_code = 500
  /\ response.detail = "testing failed"

\* C17: after a restart the record returned is the recursive call's: its
\* phases 1 to 4, its task results and its final_project are those of the
\* restarted run, its description the prompt of that run; the abandoned
\* attempt assembles nothing and a record once returned stays.
C17_RestartReturnsInner ==
  /\ []((pc = "done" /\ restarts > 0) =>
          /\ result.status = "success"
          /\ result.description = user_prompt
          /\ result.phases = phase_results
          /\ result.phases.p1.status = "completed"
          /\ result.phases.p2 = phase2_results
          /\ \A i \in 1 .. Len(result.phases.p2) :
               result.phases.p2[i].status \in {"completed", "failed"}
          /\ result.phases.p3.run = restarts
          /\ result.phases.p4.run = restarts
          /\ result.final_project = GenerateFinalProject(phase3_result.output)
          /\ phase3_result.run = restarts
          /\ calls.final = 1)
  /\ [][(pc = "test" /\ pc' = "analyze") =>
          /\ calls.final = 0
          /\ result = NoReturn
          /\ result' = NoReturn
          /\ restarts' = restarts + 1]_vars
  /\ [][result # NoReturn => result' = result]_vars

\* A run that was restarted after its second tester call has returned.
C17_Witness ==
  /\ pc = "done"
  /\ restarts = 1
  /\ IsImproved(user_prompt)
  /\ phase_results.p3.run = 1
  /\ result.description = user_prompt
  /\ result.phases.p1.note = "Used fallback task structure"
  /\ calls.test = 2

\* No two tasks of the spec carry the same id.
UniqueIds(tasks) ==
  \A i, j \in 1 .. Len(tasks) : tasks[i].id = tasks[j].id => i = j

\* C18 as claimed: with unique task ids, through every refinement iteration
\* the phase-2 results have one element per task and the element at each
\* position carries the task_id of the task at that position.
C18_ResultsAlignedWithTasks ==
  (/\ pc \in {"test", "fix", "reintegrate", "final", "done"}
   /\ UniqueIds(project_spec.tasks)) =>
     /\ Len(phase2_results) = Len(project_spec.tasks)
     /\ \A i \in 1 .. Len(phase2_results) :
          phase2_results[i].task_id = project_spec.tasks[i].id

\* C19 as claimed: at every point between two iterations and at the end of an
\* activation that came as far as phase 3 or a modification branch, the
\* integrator has been invoked once after phase 2 plus once for each iteration
\* that took the modification branch; an iteration with a status that is not a
\* pass and neither flag set re-executes no task, invokes no integrator and
\* leaves the integration output to the next tester call.
C19_IntegratorCalls ==
  /\ []((/\ pc \in {"test", "final", "done", "raised"}
         /\ calls.integrate + calls.modify > 0)
          => calls.integrate = 1 + calls.modify)
  /\ [][(pc = "test" /\ Decide(TestOut') = "continue") =>
          /\ calls'.task = calls.task
          /\ calls'.integrate = calls.integrate
          /\ calls'.modify = calls.modify
          /\ phase2_results' = phase2_results
          /\ phase3_result' = phase3_result
          /\ pc' \in {"test", "final"}]_vars
  /\ [][(pc = "test" /\ pc' # "analyze") =>
          phase_results'.p4.tested = phase3_result.call]_vars

\* C20 as claimed: in the record returned, entry 3 of phases is the
\* integration result whose output final assembly was given, the latest one
\* the integrator returned in the activation.
C20_Phase3IsAssembledResult ==
  pc = "done" =>
    /\ result.phases.p3 = phase3_result
    /\ result.phases.p3.call = result.assembled_from
    /\ result.phases.p3.call = calls.integrate

\* C21 as claimed: the tester result returned as phase 4 is a test of the
\* integration output that final assembly was given.
C21_AssembledWasTested ==
  pc = "done" =>
    /\ result.phases.p4.run = restarts
    /\ result.phases.p4.tested = result.assembled_from

\* C21, amended: the tester result returned as phase 4 is the last tester
\* call's and a test of the assembled output unless that call took the
\* phase-2 modification branch; that happens only on the last iteration, and
\* then the assembled output is the re-integration made after the test, which
\* no tester call was given.
C21_AssembledTestedUnlessModifiedLast ==
  pc = "done" =>
    /\ result.phases.p4 = phase_results.p4
    /\ result.phases.p4.run = restarts
    /\ result.assembled_from = calls.integrate
    /\ Decide(TestOut) # "restart"
    /\ Decide(TestOut) # "modify"
         => result.phases.p4.tested = result.assembled_from
    /\ Decide(TestOut) = "modify"
         => /\ calls.test = max_iterations
            /\ result.assembled_from = result.phases.p4.tested + 1

\* A run whose last iteration took the modification branch has returned.
C21_Witness ==
  /\ pc = "done"
  /\ Decide(TestOut) = "modify"
  /\ calls.test = max_iterations
  /\ result.assembled_from = result.phases.p4.tested + 1
  /\ result.final_project.total_files > 0

\* C22: a restart is open to every tester call, whatever the iteration and
\* however many restarts came before; it starts the refinement loop anew
\* (iteration 0, no call counted), so each activation has max_iterations
\* tester calls of its own; a tester call that asks for a restart never takes
\* the run to final assembly, which is reached only after a tester call that
\* did not ask for one; with no more than MaxDepth restarts every run ends.
C22_RestartsUnbounded ==
  /\ []((pc = "test" /\ restarts < MaxDepth) =>
          ENABLED (TestOn(LoopOutputs, MaxDepth) /\ pc' = "analyze"))
  /\ []((pc = "test") =>
          (iteration = calls.test /\ calls.test < max_iterations))
  /\ []((pc \in {"final", "done"}) =>
          (calls.test >= 1 /\ Decide(TestOut) # "restart"))
  /\ [][(pc = "test" /\ Decide(TestOut') = "restart") =>
          /\ pc' = "analyze"
          /\ restarts' = restarts + 1
          /\ iteration' = 0
          /\ calls' = NoCalls
          /\ result' = NoReturn]_vars
  /\ [][(pc # "final" /\ pc' = "final") =>
          (pc = "test" /\ Decide(TestOut') # "restart")]_vars
  /\ <>(pc \in {"done", "raised"})

\* A run with more restarts than max_iterations whose last activation made
\* max_iterations tester calls of its own.
C22_Witness ==
  /\ pc = "done"
  /\ restarts = MaxDepth
  /\ restarts > max_iterations
  /\ calls.test = max_iterations
  /\ TestOut.status = "fail"

====
